---- MODULE Spec2Model ----
(***************************************************************************)
(* The tray-driven control loop of atrofac's GUI (gui/src/main.rs).        *)
(*                                                                         *)
(* The loop is single-threaded: it blocks only in receive_event, and every *)
(* other step runs to completion.  One action of this model is therefore   *)
(* one run of the startup sequence or one iteration of the loop, from the  *)
(* receive_event call to the point where the loop blocks again or the run  *)
(* ends.  Every fallible call of the engine or of the system interface may *)
(* fail; which one fails in a step is the input `fail` of the step.        *)
(*                                                                         *)
(* The engine (atrofac_libgui::engine::Engine) and the system interface    *)
(* (atrofac_libgui::system::SystemInterface) are not part of main.rs; they *)
(* are modelled from the contract the specification gives for them.        *)
(***************************************************************************)
EXTENDS Integers, Sequences, FiniteSets, TLC

\* ------------------------------------------------------------------------
\* Bounds of the model.

\* The longest plan list a configuration file holds.
MaxPlans == 2

\* ------------------------------------------------------------------------
\* Constants of main.rs.

MENU_ITEM_RELOAD_CONFIG_OFFSET == 1
MENU_ITEM_EDIT_CONFIG_OFFSET == 2
MENU_ITEM_EDIT_EXIT_OFFSET == 3
DEFAULT_INTERVAL_SEC == 120

\* ------------------------------------------------------------------------
\* Option<T>: None is <<>>, Some(x) is <<x>>.

None == <<>>
Some(x) == <<x>>
is_some(o) == o # <<>>
unwrap(o) == o[1]
unwrap_or(o, default) == IF o = <<>> THEN default ELSE o[1]

\* ------------------------------------------------------------------------
\* Plans and configurations (the engine's data).

\* A plan: a unique name and an optional update_interval_sec.
Plan(name, interval) == [name |-> name, update_interval_sec |-> interval]

\* The plans a configuration file can contain: each name has one definition.
KnownPlans ==
    { Plan("Silent", None), Plan("Balanced", Some(60)), Plan("Turbo", Some(30)) }

PlanNames == { p.name : p \in KnownPlans }

UniqueNames(plans) ==
    \A i, j \in 1..Len(plans) : plans[i].name = plans[j].name => i = j

\* The sequences over S of length at most n.
RECURSIVE SeqsUpTo(_, _)
SeqsUpTo(S, n) ==
    IF n = 0 THEN { <<>> }
    ELSE LET shorter == SeqsUpTo(S, n - 1)
         IN shorter \cup { Append(s, x) : s \in { t \in shorter : Len(t) = n - 1 }, x \in S }

OptionalNames == {None} \cup { Some(n) : n \in PlanNames }

\* The plan called `name` in a plan list, if any.
find_plan(plans, name) ==
    LET hits == { i \in 1..Len(plans) : plans[i].name = name }
    IN IF hits = {} THEN None ELSE Some(plans[CHOOSE i \in hits : \A j \in hits : i <= j])

\* What a configuration file can hold: an ordered plan list with unique
\* names, and the name of the active plan, one of the listed plans if any.
ConfigFiles ==
    { c \in [plans : { s \in SeqsUpTo(KnownPlans, MaxPlans) : UniqueNames(s) },
             active_plan : OptionalNames] :
        is_some(c.active_plan) => is_some(find_plan(c.plans, unwrap(c.active_plan))) }

\* ------------------------------------------------------------------------
\* The state.

VARIABLES
    pc,      \* "Starting", "Running" (blocked in receive_event) or "Terminated"
    engine,  \* the Engine: the loaded configuration
    system,  \* the SystemInterface: tray menu, tooltip, timer, quit request, dialogs
    event,   \* what the last receive_event returned
    calls,   \* the engine and system calls of the last step, in order
    error,   \* the Err that run_main_with_error returned, if it did
    aborted  \* run_main panicked: the error dialog could not be shown

vars == <<pc, engine, system, event, calls, error, aborted>>

\* ------------------------------------------------------------------------
\* Errors (AfErr).  `what` is the call that failed, `n` the number the
\* message of a protocol error carries.

CallFailed(op) == [kind |-> "call failed", what |-> op, n |-> 0]
UnknownOffset(offset) == [kind |-> "Unknown menu item offset", what |-> "", n |-> offset]
PlanNotFound(id) == [kind |-> "Plan not found", what |-> "", n |-> id]

\* ------------------------------------------------------------------------
\* A step works on a context: the engine and the system as the step has
\* changed them so far, the calls it has made, the error that ended it (the
\* `?` operator returns at the first Err) and the position, among the calls
\* of the step, of the call that fails (0: none does).

Context(fail) ==
    [engine |-> engine, system |-> system, calls |-> <<>>, err |-> None, fail |-> fail]

Call(op, arg, ok) == [op |-> op, arg |-> arg, ok |-> ok]

\* A fallible call followed by `?`: skipped when the step has already
\* returned; an Err ends the step; on Ok the call has had its effect `after`.
Try(ctx, op, arg, after) ==
    IF is_some(ctx.err) THEN ctx
    ELSE IF Len(ctx.calls) + 1 = ctx.fail
         THEN [ctx EXCEPT !.calls = Append(@, Call(op, arg, FALSE)),
                          !.err = Some(CallFailed(op))]
         ELSE [after EXCEPT !.calls = Append(ctx.calls, Call(op, arg, TRUE))]

\* A call that cannot fail.
Do(ctx, op, arg, after) ==
    IF is_some(ctx.err) THEN ctx
    ELSE [after EXCEPT !.calls = Append(ctx.calls, Call(op, arg, TRUE))]

\* return Err(e)
Raise(ctx, e) ==
    IF is_some(ctx.err) THEN ctx ELSE [ctx EXCEPT !.err = Some(e)]

\* ------------------------------------------------------------------------
\* The engine, as main.rs uses it.

engine_load_configuration(ctx, file) ==
    Try(ctx, "load_configuration", <<>>, [ctx EXCEPT !.engine = file])

engine_save_configuration(ctx) ==
    Try(ctx, "save_configuration", ctx.engine.active_plan, ctx)

engine_apply(ctx) ==
    Try(ctx, "engine.apply", ctx.engine.active_plan, ctx)

engine_set_active_plan(ctx, plan_name) ==
    Do(ctx, "set_active_plan", Some(plan_name),
       [ctx EXCEPT !.engine.active_plan = Some(plan_name)])

engine_active_plan(e) ==
    IF is_some(e.active_plan) THEN find_plan(e.plans, unwrap(e.active_plan)) ELSE None

engine_available_plans(e) == [i \in 1..Len(e.plans) |-> e.plans[i].name]

engine_number_of_plans(e) == Len(e.plans)

\* Positions count from 0.
engine_plan_by_index(e, index) ==
    IF index < Len(e.plans) THEN Some(e.plans[index + 1].name) ELSE None

engine_config_file == "atrofac_gui_config.yaml"

\* ------------------------------------------------------------------------
\* The system interface, as main.rs uses it.

StringMenuItem(text, state) == [kind |-> "String", text |-> text, state |-> state]
Separator == [kind |-> "Separator", text |-> "", state |-> "Default"]

system_tray_clear(ctx) ==
    Try(ctx, "tray_clear", <<>>, [ctx EXCEPT !.system.tray = <<>>])

system_tray_add(ctx, item) ==
    Try(ctx, "tray_add", Some(item), [ctx EXCEPT !.system.tray = Append(@, item)])

system_tray_tooltip(ctx, text) ==
    Try(ctx, "tray_tooltip", Some(text), [ctx EXCEPT !.system.tooltip = text])

system_set_timer(ctx, secs) ==
    Try(ctx, "set_timer", Some(secs), [ctx EXCEPT !.system.timer = Some(secs)])

system_edit(ctx, file) ==
    Try(ctx, "edit", Some(file), ctx)

system_quit(ctx) ==
    Try(ctx, "quit", <<>>, [ctx EXCEPT !.system.quit = TRUE])

\* What receive_event can return: Ok(Some(event)), Ok(None) or Err.
OnTimer == [type |-> "OnTimer", id |-> 0]
OnTray(menu_item_id) == [type |-> "OnTray", id |-> menu_item_id]
Shutdown == [type |-> "None", id |-> 0]
ReceiveErr == [type |-> "Err", id |-> 0]

system_receive_event(ctx, received) ==
    IF received = ReceiveErr
    THEN [ctx EXCEPT !.calls = Append(@, Call("receive_event", <<>>, FALSE)),
                     !.err = Some(CallFailed("receive_event"))]
    ELSE [ctx EXCEPT !.calls = Append(@, Call("receive_event", <<>>, TRUE))]

\* ------------------------------------------------------------------------
\* main.rs

\* apply arming the timer before the engine has applied the plan.
apply_timer_first(ctx) ==
    LET active_plan == engine_active_plan(ctx.engine)
        armed == IF is_some(active_plan)
                 THEN system_set_timer(ctx,
                          unwrap_or(unwrap(active_plan).update_interval_sec,
                                    DEFAULT_INTERVAL_SEC))
                 ELSE ctx
    IN engine_apply(armed)

\* apply arming the timer for the default interval whatever the plan sets.
apply_default_interval(ctx) ==
    LET applied == engine_apply(ctx)
    IN IF is_some(engine_active_plan(applied.engine))
       THEN system_set_timer(applied, DEFAULT_INTERVAL_SEC)
       ELSE applied

\* apply cancelling the timer when no plan is active.
apply_cancels_timer(ctx) ==
    LET applied == engine_apply(ctx)
        active_plan == engine_active_plan(applied.engine)
    IN IF is_some(active_plan)
       THEN system_set_timer(applied,
                unwrap_or(unwrap(active_plan).update_interval_sec, DEFAULT_INTERVAL_SEC))
       ELSE IF is_some(applied.err) THEN applied
            ELSE [applied EXCEPT !.system.timer = None]

\* fn apply
apply(ctx) ==
    LET applied == engine_apply(ctx)
        active_plan == engine_active_plan(applied.engine)
    IN IF is_some(active_plan)
       THEN LET interval_secs ==
                    unwrap_or(unwrap(active_plan).update_interval_sec, DEFAULT_INTERVAL_SEC)
            IN system_set_timer(applied, interval_secs)
       ELSE applied

\* The for loop of load_tray without the `?`: the Err of a tray_add is dropped.
RECURSIVE load_tray_plans_unchecked(_, _, _)
load_tray_plans_unchecked(ctx, active_plan, plan_names) ==
    IF plan_names = <<>> THEN ctx
    ELSE LET plan_name == Head(plan_names)
             active == IF is_some(active_plan)
                       THEN unwrap(active_plan).name = plan_name
                       ELSE FALSE
             added == system_tray_add(ctx,
                          StringMenuItem(plan_name, IF active THEN "Checked" ELSE "Default"))
         IN load_tray_plans_unchecked([added EXCEPT !.err = ctx.err],
                                      active_plan, Tail(plan_names))

\* The for loop of load_tray: one entry for each of the plan names left.
RECURSIVE load_tray_plans(_, _, _)
load_tray_plans(ctx, active_plan, plan_names) ==
    IF plan_names = <<>> THEN ctx
    ELSE LET plan_name == Head(plan_names)
             active == IF is_some(active_plan)
                       THEN unwrap(active_plan).name = plan_name
                       ELSE FALSE
             added == system_tray_add(ctx,
                          StringMenuItem(plan_name, IF active THEN "Checked" ELSE "Default"))
         IN load_tray_plans(added, active_plan, Tail(plan_names))

\* load_tray with the separator added after the three actions.
load_tray_separator_last(ctx) ==
    LET cleared == system_tray_clear(ctx)
        active_plan == engine_active_plan(ctx.engine)
        plans == load_tray_plans(cleared, active_plan, engine_available_plans(ctx.engine))
        reload == system_tray_add(plans, StringMenuItem("Reload configuration", "Default"))
        edit == system_tray_add(reload, StringMenuItem("Edit configuration", "Default"))
        quit == system_tray_add(edit, StringMenuItem("Quit application", "Default"))
    IN system_tray_add(quit, Separator)

\* fn load_tray
load_tray(ctx) ==
    LET cleared == system_tray_clear(ctx)
        active_plan == engine_active_plan(ctx.engine)
        plans == load_tray_plans(cleared, active_plan, engine_available_plans(ctx.engine))
        separator == system_tray_add(plans, Separator)
        reload == system_tray_add(separator, StringMenuItem("Reload configuration", "Default"))
        edit == system_tray_add(reload, StringMenuItem("Edit configuration", "Default"))
    IN system_tray_add(edit, StringMenuItem("Quit application", "Default"))

\* on_tray with one of the slips a change of it could make; the properties
\* below are checked to tell each of them from on_tray.
on_tray_with(slip, menu_item_id, ctx, file) ==
    LET index_usize == menu_item_id
        number_of_plans == engine_number_of_plans(ctx.engine)
        edit_offset == IF slip = "edit and quit swapped"
                       THEN MENU_ITEM_EDIT_EXIT_OFFSET ELSE MENU_ITEM_EDIT_CONFIG_OFFSET
        exit_offset == IF slip = "edit and quit swapped"
                       THEN MENU_ITEM_EDIT_CONFIG_OFFSET ELSE MENU_ITEM_EDIT_EXIT_OFFSET
    IN IF index_usize >= number_of_plans
       THEN LET offset == index_usize - number_of_plans
            IN CASE offset = MENU_ITEM_RELOAD_CONFIG_OFFSET ->
                        CASE slip = "reload keeps the tray" ->
                                 apply(engine_load_configuration(ctx, file))
                          [] slip = "reload applies first" ->
                                 load_tray(apply(engine_load_configuration(ctx, file)))
                          [] OTHER ->
                                 apply(load_tray(engine_load_configuration(ctx, file)))
                 [] offset = edit_offset ->
                        IF slip = "edit rebuilds the tray"
                        THEN load_tray(system_edit(ctx, engine_config_file))
                        ELSE system_edit(ctx, engine_config_file)
                 [] offset = exit_offset ->
                        system_quit(ctx)
                 [] offset = 0 /\ slip = "separator is ignored" -> ctx
                 [] OTHER ->
                        IF slip = "unknown offset quits"
                        THEN Raise(system_quit(ctx), UnknownOffset(offset))
                        ELSE Raise(ctx, UnknownOffset(offset))
       ELSE LET plan_name == engine_plan_by_index(ctx.engine, menu_item_id)
            IN IF is_some(plan_name)
               THEN CASE slip = "apply before save" ->
                             load_tray(engine_save_configuration(apply(
                                 engine_set_active_plan(ctx, unwrap(plan_name)))))
                      [] slip = "selection is not saved" ->
                             load_tray(apply(
                                 engine_set_active_plan(ctx, unwrap(plan_name))))
                      [] OTHER -> load_tray(apply(engine_save_configuration(
                             engine_set_active_plan(ctx, unwrap(plan_name)))))
               ELSE Raise(ctx, PlanNotFound(menu_item_id))

on_tray_edit_quit_swapped(menu_item_id, ctx, file) ==
    on_tray_with("edit and quit swapped", menu_item_id, ctx, file)

on_tray_reload_keeps_tray(menu_item_id, ctx, file) ==
    on_tray_with("reload keeps the tray", menu_item_id, ctx, file)

on_tray_reload_applies_first(menu_item_id, ctx, file) ==
    on_tray_with("reload applies first", menu_item_id, ctx, file)

on_tray_separator_ignored(menu_item_id, ctx, file) ==
    on_tray_with("separator is ignored", menu_item_id, ctx, file)

on_tray_apply_before_save(menu_item_id, ctx, file) ==
    on_tray_with("apply before save", menu_item_id, ctx, file)

on_tray_edit_rebuilds_tray(menu_item_id, ctx, file) ==
    on_tray_with("edit rebuilds the tray", menu_item_id, ctx, file)

on_tray_unknown_offset_quits(menu_item_id, ctx, file) ==
    on_tray_with("unknown offset quits", menu_item_id, ctx, file)

on_tray_selection_not_saved(menu_item_id, ctx, file) ==
    on_tray_with("selection is not saved", menu_item_id, ctx, file)

\* fn on_tray; `file` is what the configuration file holds, should it be read.
\* The index is never negative, so usize::try_from(menu_item_id.id()) is Ok.
on_tray(menu_item_id, ctx, file) ==
    LET index_usize == menu_item_id
        number_of_plans == engine_number_of_plans(ctx.engine)
    IN IF index_usize >= number_of_plans
       THEN \* not a plan
            LET offset == index_usize - number_of_plans
            IN CASE offset = MENU_ITEM_RELOAD_CONFIG_OFFSET ->
                        apply(load_tray(engine_load_configuration(ctx, file)))
                 [] offset = MENU_ITEM_EDIT_CONFIG_OFFSET ->
                        system_edit(ctx, engine_config_file)
                 [] offset = MENU_ITEM_EDIT_EXIT_OFFSET ->
                        system_quit(ctx)
                 [] OTHER -> Raise(ctx, UnknownOffset(offset))
       ELSE \* it's a plan
            LET plan_name == engine_plan_by_index(ctx.engine, menu_item_id)
            IN IF is_some(plan_name)
               THEN load_tray(apply(engine_save_configuration(
                        engine_set_active_plan(ctx, unwrap(plan_name)))))
               ELSE Raise(ctx, PlanNotFound(menu_item_id))

Tooltip == "Control fan curve and power profile for Asus Zephyrus ROG G14."

\* The startup sequence rebuilding the tray before the Apply Step.
run_main_with_error_start_tray_first(ctx, file) ==
    system_tray_tooltip(apply(load_tray(engine_load_configuration(ctx, file))), Tooltip)

\* run_main_with_error up to the loop.
run_main_with_error_start(ctx, file) ==
    system_tray_tooltip(load_tray(apply(engine_load_configuration(ctx, file))), Tooltip)

\* The loop rebuilding the tray on a timer event.
run_main_with_error_loop_timer_rebuilds(ctx, received, file) ==
    LET got == system_receive_event(ctx, received)
    IN CASE received.type = "OnTimer" -> load_tray(apply(got))
         [] received.type = "OnTray" -> on_tray(received.id, got, file)
         [] OTHER -> got

\* The loop dropping a timer event that follows another one.
run_main_with_error_loop_coalesces(ctx, received, file) ==
    LET got == system_receive_event(ctx, received)
    IN CASE received.type = "OnTimer" -> IF event = OnTimer THEN got ELSE apply(got)
         [] received.type = "OnTray" -> on_tray(received.id, got, file)
         [] OTHER -> got

\* One iteration of the loop of run_main_with_error, receive_event having
\* returned `received`.
run_main_with_error_loop(ctx, received, file) ==
    LET got == system_receive_event(ctx, received)
    IN CASE received.type = "OnTimer" -> apply(got)
         [] received.type = "OnTray" -> on_tray(received.id, got, file)
         [] OTHER -> got

\* The loop going on after an Err: a retry.
loop_continues_after_error(ctx, received) ==
    received.type # "None"

\* The loop going on after Ok(None).
loop_continues_after_sentinel(ctx, received) ==
    ~is_some(ctx.err)

\* The loop ending once the system has been asked to quit.
loop_continues_until_quit(ctx, received) ==
    ~is_some(ctx.err) /\ received.type # "None" /\ ~ctx.system.quit

\* Whether the loop goes on after an iteration: it ends on an Err and on the
\* `return Ok(())` that answers Ok(None).
loop_continues(ctx, received) ==
    ~is_some(ctx.err) /\ received.type # "None"

\* fn run_main, for one step of run_main_with_error that ended as `ctx`:
\* an Err is shown in a dialog and ends the run; the run panics when the
\* dialog cannot be shown.
run_main(ctx, continues, dialog_ok) ==
    /\ engine' = ctx.engine
    /\ calls' = ctx.calls
    /\ error' = ctx.err
    /\ IF is_some(ctx.err)
       THEN /\ system' = [ctx.system EXCEPT !.dialogs =
                            Append(@, [title |-> "Error", message |-> unwrap(ctx.err)])]
            /\ aborted' = ~dialog_ok
       ELSE /\ system' = ctx.system
            /\ aborted' = FALSE
    /\ pc' = IF continues THEN "Running" ELSE "Terminated"

\* ------------------------------------------------------------------------
\* The inputs of a step.

\* The position of the failing call among the calls of a step; the longest
\* step is a reload: receive_event, load_configuration, tray_clear, one
\* tray_add for each plan and four more, engine.apply, set_timer.
FailPoints == 0..(MaxPlans + 9)

\* The indices the tray can report: those of the entries and two beyond.
MenuItemIds == 0..(MaxPlans + MENU_ITEM_EDIT_EXIT_OFFSET + 2)

\* fn main: a new engine and a new system interface.
Init ==
    /\ pc = "Starting"
    /\ engine = [plans |-> <<>>, active_plan |-> None]
    /\ system = [tray |-> <<>>, tooltip |-> "", timer |-> None, quit |-> FALSE,
                 dialogs |-> <<>>]
    /\ event = [type |-> "", id |-> 0]
    /\ calls = <<>>
    /\ error = None
    /\ aborted = FALSE

\* The contents of the configuration file are an input of a step that
\* reads it, which `probe`, the step on some file, tells.
FilesRead(probe) ==
    IF \E k \in 1..Len(probe.calls) :
           probe.calls[k].op = "load_configuration" /\ probe.calls[k].ok
    THEN ConfigFiles
    ELSE {engine}

\* A failure position past the last call of a step, or at a call that
\* cannot fail, is the step without a failure: fail = 0 stands for it.
Fails(ctx) == ctx.fail = 0 \/ \E k \in 1..Len(ctx.calls) : ~ctx.calls[k].ok

\* Whether the dialog can be shown is an input of a step that shows one.
DialogOutcomes(ctx) == IF is_some(ctx.err) THEN BOOLEAN ELSE {TRUE}

\* The startup sequence.
Start ==
    /\ pc = "Starting"
    /\ \E fail \in FailPoints :
       \E file \in FilesRead(run_main_with_error_start(Context(fail), engine)) :
         \E ctx \in {run_main_with_error_start(Context(fail), file)} :
            /\ Fails(ctx)
            /\ \E dialog_ok \in DialogOutcomes(ctx) :
                 run_main(ctx, ~is_some(ctx.err), dialog_ok)
    /\ UNCHANGED event

\* One iteration of the loop, receive_event having returned `received`.
Iteration(received) ==
    /\ event' = received
    /\ \E fail \in FailPoints :
       \E file \in FilesRead(run_main_with_error_loop(Context(fail), received, engine)) :
         \E ctx \in {run_main_with_error_loop(Context(fail), received, file)} :
            /\ Fails(ctx)
            /\ \E dialog_ok \in DialogOutcomes(ctx) :
                 run_main(ctx, loop_continues(ctx, received), dialog_ok)

\* receive_event returns Ok(Some(SystemEvent::OnTimer)).
Timer ==
    /\ pc = "Running"
    /\ Iteration(OnTimer)

\* receive_event returns Ok(Some(SystemEvent::OnTray(menu_item_id))).
Tray ==
    /\ pc = "Running"
    /\ \E menu_item_id \in MenuItemIds : Iteration(OnTray(menu_item_id))

\* receive_event returns Ok(None).
NoMoreEvents ==
    /\ pc = "Running"
    /\ Iteration(Shutdown)

\* receive_event returns Err.
ReceiveFails ==
    /\ pc = "Running"
    /\ Iteration(ReceiveErr)

Next == Start \/ Timer \/ Tray \/ NoMoreEvents \/ ReceiveFails

Spec == Init /\ [][Next]_vars

\* ------------------------------------------------------------------------
\* Vocabulary of the properties.

\* The operations of a call sequence, in order.
Ops(cs) == [k \in 1..Len(cs) |-> cs[k].op]

IsPrefix(s, t) == Len(s) <= Len(t) /\ \A k \in 1..Len(s) : s[k] = t[k]

Repeat(x, n) == [k \in 1..n |-> x]

\* The positions of the calls of `op` among the calls of the last step.
CallsOf(op) == { k \in 1..Len(calls) : calls[k].op = op }

\* The step being taken handles the activation of the menu entry `idx`.
HandlesTray(idx) == pc = "Running" /\ event' = OnTray(idx)

\* The tray entry load_tray is to add for the plan at position i (from 1).
PlanEntry(e, i) ==
    StringMenuItem(e.plans[i].name,
                   IF e.active_plan = Some(e.plans[i].name) THEN "Checked" ELSE "Default")

\* The menu layout of an engine state: the plans, the separator, the actions.
MenuLayout(e) ==
    [i \in 1..Len(e.plans) |-> PlanEntry(e, i)] \o
    << Separator,
       StringMenuItem("Reload configuration", "Default"),
       StringMenuItem("Edit configuration", "Default"),
       StringMenuItem("Quit application", "Default") >>

\* ------------------------------------------------------------------------
\* C1: decoding of the activated index in on_tray.  With n plans in the
\* engine, an activation of idx < n starts with the selection of the plan at
\* position idx; idx = n+1 starts a reload of the configuration, idx = n+2
\* opens the configuration file for editing, idx = n+3 asks the system to
\* quit, and every idx >= n+4 makes no call and returns the error of an
\* unknown menu item offset idx - n.
C1_IndexDecoding ==
    [][\A idx \in MenuItemIds :
         HandlesTray(idx) =>
           LET n == Len(engine.plans)
               second(op) == Len(calls') >= 2 /\ calls'[2].op = op
           IN /\ idx < n =>
                   /\ second("set_active_plan")
                   /\ calls'[2].arg = Some(engine.plans[idx + 1].name)
              /\ idx = n + 1 => second("load_configuration")
              /\ idx = n + 2 => second("edit")
              /\ idx = n + 3 => second("quit")
              /\ idx >= n + 4 =>
                   /\ Len(calls') = 1
                   /\ error' = Some(UnknownOffset(idx - n))
      ]_vars

\* The plan at position 1, the second one, has been selected.
C1_Witness ==
    /\ pc = "Running"
    /\ event = OnTray(1)
    /\ Len(engine.plans) >= 2
    /\ Len(calls) >= 2
    /\ calls[2].op = "set_active_plan"
    /\ engine.active_plan = Some(engine.plans[2].name)

\* ------------------------------------------------------------------------
\* C2: whenever the loop is blocked in receive_event, the tray menu is the
\* layout of the engine's state: one entry for each plan, in the engine's
\* order, with the plan's name, checked exactly when the plan is the active
\* one, then the separator, reload, edit and quit; number_of_plans + 4
\* entries in all.
C2_TrayMatchesEngine ==
    pc = "Running" =>
      LET n == Len(engine.plans)
          tray == system.tray
      IN /\ Len(tray) = n + 4
         /\ \A i \in 1..n :
              /\ tray[i].kind = "String"
              /\ tray[i].text = engine.plans[i].name
              /\ tray[i].state \in {"Checked", "Default"}
              /\ tray[i].state = "Checked" <=> engine.active_plan = Some(engine.plans[i].name)
         /\ tray[n + 1].kind = "Separator"
         /\ tray[n + 2] = StringMenuItem("Reload configuration", "Default")
         /\ tray[n + 3] = StringMenuItem("Edit configuration", "Default")
         /\ tray[n + 4] = StringMenuItem("Quit application", "Default")

\* The loop blocks again after a reload that brought two plans, one active.
C2_Witness ==
    /\ pc = "Running"
    /\ event.type = "OnTray"
    /\ Len(calls) >= 2
    /\ calls[2].op = "load_configuration"
    /\ Len(engine.plans) = 2
    /\ engine.active_plan = Some(engine.plans[2].name)
    /\ system.tray[2].state = "Checked"

\* ------------------------------------------------------------------------
\* C3: a load_tray that succeeds on an engine state with n plans clears the
\* tray once and then makes exactly n + 4 additions: the plans in the
\* engine's order (the name, Checked exactly for the active plan), the
\* separator, "Reload configuration", "Edit configuration" and "Quit
\* application" in Default state.  At most one entry is Checked.
LoadTraySucceeded ==
    /\ CallsOf("tray_clear") # {}
    /\ \A k \in CallsOf("tray_clear") \cup CallsOf("tray_add") : calls[k].ok

C3_LoadTraySequence ==
    LoadTraySucceeded =>
      LET n == Len(engine.plans)
          layout == MenuLayout(engine)
      IN /\ Cardinality(CallsOf("tray_clear")) = 1
         /\ \A c \in CallsOf("tray_clear") :
              /\ CallsOf("tray_add") = (c + 1)..(c + n + 4)
              /\ \A i \in 1..(n + 4) : calls[c + i].arg = Some(layout[i])
         /\ Cardinality({ k \in CallsOf("tray_add") :
                            unwrap(calls[k].arg).state = "Checked" }) <= 1

\* A rebuild for two plans, the second of them active.
C3_Witness ==
    /\ LoadTraySucceeded
    /\ Len(engine.plans) = 2
    /\ engine.active_plan = Some(engine.plans[2].name)
    /\ Cardinality(CallsOf("tray_add")) = 6

\* ------------------------------------------------------------------------
\* C4: the Apply Step.  The engine's apply runs first.  When it succeeds
\* and a plan is active, the timer is armed exactly once, right after, with
\* the plan's update_interval_sec, or with 120 seconds when the plan sets
\* none; when no plan is active no timer call is made.  When the engine's
\* apply fails no timer call is made and the step returns that error.
ActivePlanOf(e) == { i \in 1..Len(e.plans) : e.active_plan = Some(e.plans[i].name) }

C4_ApplyStep ==
    /\ \A k \in CallsOf("engine.apply") :
         /\ ~calls[k].ok =>
              /\ k = Len(calls)
              /\ error = Some(CallFailed("engine.apply"))
         /\ calls[k].ok =>
              /\ \A i \in ActivePlanOf(engine) :
                   /\ k < Len(calls)
                   /\ calls[k + 1].op = "set_timer"
                   /\ calls[k + 1].arg =
                        IF engine.plans[i].update_interval_sec = None
                        THEN Some(120)
                        ELSE engine.plans[i].update_interval_sec
                   /\ calls[k + 1].ok => system.timer = calls[k + 1].arg
              /\ ActivePlanOf(engine) = {} => CallsOf("set_timer") = {}
    /\ \A t \in CallsOf("set_timer") :
         /\ t - 1 \in CallsOf("engine.apply")
         /\ calls[t - 1].ok
    /\ Cardinality(CallsOf("set_timer")) <= Cardinality(CallsOf("engine.apply"))

\* A timer event with an active plan that sets no interval: armed for 120 s.
C4_Witness ==
    /\ pc = "Running"
    /\ event = OnTimer
    /\ \E i \in ActivePlanOf(engine) : engine.plans[i].update_interval_sec = None
    /\ Ops(calls) = <<"receive_event", "engine.apply", "set_timer">>
    /\ system.timer = Some(120)

\* ------------------------------------------------------------------------
\* C5: the selection of a plan (idx < n) sets the engine's active plan to
\* the plan at position idx, saves the configuration, runs the Apply Step
\* and rebuilds the tray, in this order.  The configuration is saved with
\* the new active plan before the Apply Step; when the save fails, neither
\* the Apply Step nor the rebuild runs.
SelectionOps(n) ==
    << "receive_event", "set_active_plan", "save_configuration", "engine.apply",
       "set_timer", "tray_clear" >> \o Repeat("tray_add", n + 4)

C5_SelectionOrder ==
    [][\A idx \in MenuItemIds :
         HandlesTray(idx) /\ idx < Len(engine.plans) =>
           LET n == Len(engine.plans)
               plan_name == engine.plans[idx + 1].name
           IN /\ IsPrefix(Ops(calls'), SelectionOps(n))
              /\ Len(calls') >= 3
              /\ calls'[2].arg = Some(plan_name)
              /\ calls'[3].arg = Some(plan_name)
              /\ engine'.active_plan = Some(plan_name)
              /\ engine'.plans = engine.plans
              /\ ~calls'[3].ok => Len(calls') = 3 /\ error' = Some(CallFailed("save_configuration"))
              /\ error' = None => Ops(calls') = SelectionOps(n)
      ]_vars

\* A selection whose save, Apply Step and rebuild have all run.
C5_Witness ==
    /\ pc = "Running"
    /\ event.type = "OnTray"
    /\ event.id < Len(engine.plans)
    /\ Ops(calls) = SelectionOps(Len(engine.plans))
    /\ calls[3].arg = engine.active_plan

\* ------------------------------------------------------------------------
\* C6: an engine or system call that returns an error ends the run at that
\* call: it is the last call made, one error dialog titled "Error" is
\* requested with that error as its message, and the run is over for good.
\* A run that has met no error has requested no dialog.
C6_ErrorState ==
    /\ \A k \in 1..Len(calls) :
         ~calls[k].ok =>
           /\ k = Len(calls)
           /\ error = Some(CallFailed(calls[k].op))
    /\ is_some(error) =>
         /\ pc = "Terminated"
         /\ system.dialogs = << [title |-> "Error", message |-> unwrap(error)] >>
    /\ error = None => system.dialogs = <<>> /\ ~aborted

C6_ErrorEndsRun == []C6_ErrorState /\ [][pc # "Terminated"]_vars

\* The timer could not be armed while a timer event was handled.
C6_Witness ==
    /\ pc = "Terminated"
    /\ event = OnTimer
    /\ error = Some(CallFailed("set_timer"))
    /\ Len(system.dialogs) = 1
    /\ Ops(calls) = <<"receive_event", "engine.apply", "set_timer">>

\* ------------------------------------------------------------------------
\* C7: when receive_event returns the shutdown sentinel the loop ends with
\* success: the step makes no call but the receive_event, changes neither
\* the engine nor the tray, the timer or the dialogs, and no step follows.
C7_ShutdownEndsLoop ==
    [][/\ pc = "Running" /\ event' = Shutdown =>
            /\ pc' = "Terminated"
            /\ error' = None
            /\ ~aborted'
            /\ Ops(calls') = <<"receive_event">>
            /\ engine' = engine
            /\ system' = system
       /\ ~(pc = "Terminated" /\ event = Shutdown)
      ]_vars

\* The loop has ended on the sentinel, after a timer had been armed.
C7_Witness ==
    /\ pc = "Terminated"
    /\ event = Shutdown
    /\ error = None
    /\ is_some(system.timer)
    /\ system.dialogs = <<>>

\* ------------------------------------------------------------------------
\* C8, as the specification states it: once the quit call has succeeded the
\* loop exits, so that no further event is handled and neither the engine
\* nor the tray nor the timer changes any more.
C8_LoopExitsOnQuit ==
    [][system.quit =>
         /\ event'.type \notin {"OnTimer", "OnTray"}
         /\ engine' = engine
         /\ system'.tray = system.tray
         /\ system'.timer = system.timer
      ]_vars

\* C8, as the code has it: the activation of quit (idx = n+3) makes the
\* quit call and no other, and changes neither the engine nor the tray nor
\* the timer.  When the call succeeds on_tray returns Ok and the loop goes
\* back to receive_event: it has not exited, and it ends only when a later
\* receive_event returns the sentinel or an error.  When the call fails the
\* run ends with that error.
C8_QuitOnlyRequests ==
    [][\A idx \in MenuItemIds :
         HandlesTray(idx) /\ idx = Len(engine.plans) + 3 =>
           /\ Ops(calls') = <<"receive_event", "quit">>
           /\ engine' = engine
           /\ system'.tray = system.tray
           /\ system'.timer = system.timer
           /\ system'.tooltip = system.tooltip
           /\ calls'[2].ok =>
                /\ system'.quit
                /\ error' = None
                /\ pc' = "Running"
           /\ ~calls'[2].ok =>
                /\ system'.quit = system.quit
                /\ error' = Some(CallFailed("quit"))
                /\ pc' = "Terminated"
      ]_vars

\* The quit call has succeeded and the loop is blocked in receive_event.
C8_Witness ==
    /\ pc = "Running"
    /\ event = OnTray(Len(engine.plans) + 3)
    /\ Ops(calls) = <<"receive_event", "quit">>
    /\ system.quit

\* ------------------------------------------------------------------------
\* C9, as the specification states it: an activation of the index
\* number_of_plans (offset 0, the separator) is a no-op: no call is made,
\* nothing changes and the loop remains Running.
C9_SeparatorIsNoOp ==
    [][\A idx \in MenuItemIds :
         HandlesTray(idx) /\ idx = Len(engine.plans) =>
           /\ Ops(calls') = <<"receive_event">>
           /\ engine' = engine
           /\ system' = system
           /\ error' = None
           /\ pc' = "Running"
      ]_vars

\* C9, as the code has it: offset 0 is none of the offsets on_tray knows,
\* so the activation returns the error of an unknown menu item offset 0.
\* It selects no plan, reloads, edits and quits nothing and makes no engine,
\* tray or timer call; the error ends the run with the error dialog.
C9_SeparatorIsUnknownOffset ==
    [][\A idx \in MenuItemIds :
         HandlesTray(idx) /\ idx = Len(engine.plans) =>
           /\ Ops(calls') = <<"receive_event">>
           /\ engine' = engine
           /\ system'.tray = system.tray
           /\ system'.timer = system.timer
           /\ system'.tooltip = system.tooltip
           /\ system'.quit = system.quit
           /\ error' = Some(UnknownOffset(0))
           /\ system'.dialogs = << [title |-> "Error", message |-> UnknownOffset(0)] >>
           /\ pc' = "Terminated"
      ]_vars

\* The separator of a menu of two plans has been activated.
C9_Witness ==
    /\ event = OnTray(Len(engine.plans))
    /\ Len(engine.plans) = 2
    /\ error = Some(UnknownOffset(0))
    /\ pc = "Terminated"

\* ------------------------------------------------------------------------
\* C10: a reload (idx = n+1) reloads the configuration, rebuilds the tray
\* from the reloaded state and runs the Apply Step, in this order.  When
\* the reload fails neither the rebuild nor the Apply Step runs.  The
\* rebuild adds the plans and marks the active plan of the configuration
\* just loaded.
ReloadOps(e) ==
    << "receive_event", "load_configuration", "tray_clear" >> \o
    Repeat("tray_add", Len(e.plans) + 4) \o
    << "engine.apply" >> \o
    (IF ActivePlanOf(e) # {} THEN << "set_timer" >> ELSE <<>>)

C10_ReloadOrder ==
    [][\A idx \in MenuItemIds :
         HandlesTray(idx) /\ idx = Len(engine.plans) + 1 =>
           /\ IsPrefix(Ops(calls'), ReloadOps(engine'))
           /\ Len(calls') >= 2
           /\ ~calls'[2].ok =>
                /\ Len(calls') = 2
                /\ engine' = engine
                /\ system'.tray = system.tray
                /\ system'.timer = system.timer
           /\ \A i \in 1..(Len(engine'.plans) + 4) :
                3 + i <= Len(calls') =>
                  calls'[3 + i].arg = Some(MenuLayout(engine')[i])
           /\ error' = None =>
                /\ Ops(calls') = ReloadOps(engine')
                /\ system'.tray = MenuLayout(engine')
      ]_vars

\* A reload has brought a configuration with another number of plans.
C10_Witness ==
    /\ pc = "Running"
    /\ event.type = "OnTray"
    /\ Ops(calls) = ReloadOps(engine)
    /\ Len(engine.plans) = 2
    /\ event.id # Len(engine.plans) + 1
    /\ engine.active_plan = Some(engine.plans[1].name)
    /\ system.timer = Some(60)

\* ------------------------------------------------------------------------
\* C11: the activation of edit (idx = n+2) asks the system once to open the
\* engine's configuration file for editing and does nothing else: it makes
\* no load, save or apply call, and the engine's plan list and active plan,
\* the tray menu and the armed timer are after it what they were before.
C11_EditOnlyOpensFile ==
    [][\A idx \in MenuItemIds :
         HandlesTray(idx) /\ idx = Len(engine.plans) + 2 =>
           /\ Ops(calls') = <<"receive_event", "edit">>
           /\ calls'[2].arg = Some(engine_config_file)
           /\ engine' = engine
           /\ system'.tray = system.tray
           /\ system'.timer = system.timer
           /\ system'.tooltip = system.tooltip
           /\ system'.quit = system.quit
           /\ calls'[2].ok => error' = None /\ pc' = "Running" /\ system' = system
      ]_vars

\* The editor has been opened from a menu of two plans with a timer armed.
C11_Witness ==
    /\ pc = "Running"
    /\ Len(engine.plans) = 2
    /\ event = OnTray(Len(engine.plans) + 2)
    /\ Ops(calls) = <<"receive_event", "edit">>
    /\ is_some(system.timer)

\* ------------------------------------------------------------------------
\* C12: the startup loads the configuration, runs the Apply Step, rebuilds
\* the tray and sets the tooltip, in this order, and only then is the
\* first event received.  A failure at one of these calls skips the later
\* ones, and then no event is ever received.
StartOps(e) ==
    << "load_configuration", "engine.apply" >> \o
    (IF ActivePlanOf(e) # {} THEN << "set_timer" >> ELSE <<>>) \o
    << "tray_clear" >> \o Repeat("tray_add", Len(e.plans) + 4) \o
    << "tray_tooltip" >>

C12_StartupOrder ==
    [][/\ pc = "Starting" =>
            /\ IsPrefix(Ops(calls'), StartOps(engine'))
            /\ Len(calls') >= 1
            /\ event' = event
            /\ error' = None =>
                 /\ Ops(calls') = StartOps(engine')
                 /\ system'.tooltip = Tooltip
                 /\ pc' = "Running"
            /\ is_some(error') =>
                 /\ ~calls'[Len(calls')].ok
                 /\ pc' = "Terminated"
       /\ "receive_event" \in { calls'[k].op : k \in 1..Len(calls') } =>
            /\ pc = "Running"
            /\ system.tooltip = Tooltip
       /\ ~(pc = "Terminated" /\ event.type = "")
      ]_vars

\* The startup has completed for two plans, one of them active, and no
\* event has been received yet.
C12_Witness ==
    /\ pc = "Running"
    /\ event.type = ""
    /\ Len(engine.plans) = 2
    /\ ActivePlanOf(engine) # {}
    /\ Ops(calls) = StartOps(engine)

\* ------------------------------------------------------------------------
\* C13: a timer event runs the Apply Step once and nothing else: the tray
\* is not cleared or added to, the configuration is neither loaded nor
\* saved, and the engine's plan list and active plan do not change.  When
\* the Apply Step succeeds the loop remains Running.
C13_TimerOnlyApplies ==
    [][pc = "Running" /\ event' = OnTimer =>
         /\ IsPrefix(Ops(calls'), <<"receive_event", "engine.apply", "set_timer">>)
         /\ Len(calls') >= 2
         /\ engine' = engine
         /\ system'.tray = system.tray
         /\ system'.tooltip = system.tooltip
         /\ system'.quit = system.quit
         /\ error' = None =>
              /\ pc' = "Running"
              /\ Len(calls') = IF ActivePlanOf(engine) # {} THEN 3 ELSE 2
      ]_vars

\* A timer event has been handled while a plan was active.
C13_Witness ==
    /\ pc = "Running"
    /\ event = OnTimer
    /\ ActivePlanOf(engine) # {}
    /\ Len(engine.plans) = 2
    /\ Ops(calls) = <<"receive_event", "engine.apply", "set_timer">>

\* ------------------------------------------------------------------------
\* C14: a protocol error of on_tray, that is an offset that is none of
\* reload, edit and quit, or an index below number_of_plans for which the
\* engine has no plan, is returned before anything is done: the active
\* plan is unchanged, the configuration is neither saved nor reloaded and
\* no tray, timer, edit or quit call is made.
ProtocolError(e, idx) ==
    \/ idx >= Len(e.plans) /\ idx - Len(e.plans) \notin {1, 2, 3}
    \/ idx < Len(e.plans) /\ engine_plan_by_index(e, idx) = None

TrayCalls == CallsOf("tray_clear") \cup CallsOf("tray_add")

C15_RebuildAbortsOnFailure ==
    /\ \A k \in TrayCalls :
         ~calls[k].ok =>
           /\ k = Len(calls)
           /\ error = Some(CallFailed(calls[k].op))
           /\ pc = "Terminated"
    /\ \A c \in CallsOf("tray_clear") :
         /\ ~calls[c].ok => CallsOf("tray_add") = {}
         /\ \A k \in CallsOf("tray_add") :
              /\ k > c
              /\ k - c <= Len(engine.plans) + 4
              /\ calls[k].arg = Some(MenuLayout(engine)[k - c])
         /\ calls[c].ok =>
              system.tray = [j \in 1..Cardinality({ k \in CallsOf("tray_add") : calls[k].ok })
                               |-> MenuLayout(engine)[j]]

\* The entry of the second plan could not be added: the menu keeps one entry.
C15_Witness ==
    /\ pc = "Terminated"
    /\ Len(engine.plans) = 2
    /\ Len(system.tray) = 1
    /\ \E k \in CallsOf("tray_add") :
         /\ ~calls[k].ok
         /\ unwrap(calls[k].arg).text = engine.plans[2].name
    /\ error = Some(CallFailed("tray_add"))

\* ------------------------------------------------------------------------
\* C16: events are handled one at a time, as receive_event returns them:
\* an iteration of the loop makes one receive_event call, its first call,
\* and then handles the event it has received, and that one alone, to its
\* end or to an error; no event is skipped and nothing is handled that was
\* not received.
C16_OneEventPerIteration ==
    /\ event.type = "" => CallsOf("receive_event") = {}
    /\ event.type # "" =>
         /\ CallsOf("receive_event") = {1}
         /\ calls[1].ok <=> event # ReceiveErr
         /\ event.type \in {"None", "Err"} => Len(calls) = 1
         /\ event = OnTimer =>
              /\ Len(calls) >= 2
              /\ calls[2].op = "engine.apply"
              /\ CallsOf("engine.apply") = {2}
         /\ event.type = "OnTray" =>
              \/ /\ Len(calls) >= 2
                 /\ calls[2].op \in {"set_active_plan", "load_configuration", "edit", "quit"}
                 /\ Cardinality(CallsOf("set_active_plan") \cup CallsOf("load_configuration")
                                \cup CallsOf("edit") \cup CallsOf("quit")) = 1
              \/ /\ Len(calls) = 1
                 /\ is_some(error)
                 /\ unwrap(error).kind \in {"Unknown menu item offset", "Plan not found"}
         /\ event.type # "OnTray" =>
              CallsOf("set_active_plan") \cup CallsOf("load_configuration")
                \cup CallsOf("edit") \cup CallsOf("quit") \cup TrayCalls = {}

\* A timer event has been handled after the system had been asked to quit.
C16_Witness ==
    /\ pc = "Running"
    /\ event = OnTimer
    /\ system.quit
    /\ Len(calls) >= 2
    /\ calls[2].op = "engine.apply"

\* ------------------------------------------------------------------------
\* C17: whenever the loop is blocked in receive_event and a plan is active,
\* the timer was last armed for that plan's update_interval_sec, or for 120
\* seconds when the plan sets none.  A step that sets or loads the active
\* plan arms the timer after that, and so does every timer event handled
\* while a plan is active.
PlanChanges == CallsOf("set_active_plan") \cup CallsOf("load_configuration")

C17_TimerFollowsActivePlan ==
    pc = "Running" =>
      \A i \in ActivePlanOf(engine) :
        /\ system.timer = IF engine.plans[i].update_interval_sec = None
                          THEN Some(120)
                          ELSE engine.plans[i].update_interval_sec
        /\ PlanChanges # {} =>
             \E t \in CallsOf("set_timer") :
               /\ calls[t].ok
               /\ \A k \in PlanChanges : k < t
        /\ event = OnTimer =>
             /\ Ops(calls) = <<"receive_event", "engine.apply", "set_timer">>
             /\ calls[3].arg = system.timer

\* The plan Turbo, which sets 30 seconds, has been selected.
C17_Witness ==
    /\ pc = "Running"
    /\ engine.active_plan = Some("Turbo")
    /\ CallsOf("set_active_plan") = {2}
    /\ system.timer = Some(30)

\* ------------------------------------------------------------------------
\* C18: a step that ends with no plan active has made no timer call, so it
\* leaves the timer as it was, armed or not.  After a reload that brings a
\* configuration with no active plan the timer is still armed, and a timer
\* event is then handled by the engine's apply alone, without arming.
C18_NoPlanLeavesTimer ==
    [][ActivePlanOf(engine') = {} =>
         /\ system'.timer = system.timer
         /\ \A k \in 1..Len(calls') : calls'[k].op # "set_timer"
         /\ pc = "Running" /\ event' = OnTimer =>
              Ops(calls') = <<"receive_event", "engine.apply">>
      ]_vars

\* A timer event handled with no plan active while the timer is armed.
C18_Witness ==
    /\ pc = "Running"
    /\ event = OnTimer
    /\ ActivePlanOf(engine) = {}
    /\ is_some(system.timer)
    /\ Ops(calls) = <<"receive_event", "engine.apply">>
    /\ calls[2].ok

\* ------------------------------------------------------------------------
\* C19: the configuration is saved only by the selection of a plan, once,
\* right after the active plan has been set: a step that sets the active
\* plan attempts the save as its next call, and no other step calls
\* save_configuration or set_active_plan.
C19_SavedOnlyOnSelection ==
    /\ []( /\ CallsOf("set_active_plan") \subseteq {2}
           /\ CallsOf("save_configuration") \subseteq {3}
           /\ CallsOf("set_active_plan") = {2} <=> CallsOf("save_configuration") = {3}
           /\ CallsOf("save_configuration") # {} =>
                /\ event.type = "OnTray"
                /\ calls[3].arg = calls[2].arg )
    /\ [][\A idx \in MenuItemIds :
            HandlesTray(idx) =>
              (idx < Len(engine.plans)
                 <=> "save_configuration" \in { calls'[k].op : k \in 1..Len(calls') })
        ]_vars

\* The save of a selection has failed: one save, no Apply Step.
C19_Witness ==
    /\ pc = "Terminated"
    /\ event.type = "OnTray"
    /\ Ops(calls) = <<"receive_event", "set_active_plan", "save_configuration">>
    /\ error = Some(CallFailed("save_configuration"))

====
